---------------------------- MODULE Spec2Model ----------------------------
(***************************************************************************)
(* Starry String: the per-frame interaction pipeline of StarryCanvas       *)
(* (landmark extraction, crossing detection, ripple simulation), the       *)
(* geometry kernel of utils/math.ts, the AudioService, and the camera /    *)
(* hand-tracker lifecycle of the StarryCanvas effect.                      *)
(*                                                                         *)
(* One set of variables carries the whole program state.  The parts are    *)
(* exercised by separate specifications over these variables, each leaving *)
(* the parts it does not drive at their constructed values:                *)
(*   SpecGeom      getLineIntersection on every 4-tuple of grid points     *)
(*   Spec          onResults over sequences of frames, tracker as          *)
(*                 configured (maxNumHands = 2)                            *)
(*   SpecAnyHands  one onResults call on any HandResults (> 2 hands too)   *)
(*   SpecCross     onResults on a plucker moving about a fixed string      *)
(*   SpecRipple    onResults over long runs (ripple lifetime)              *)
(*   SpecDecay     onResults on a few frames with 0 to 3 hands, then on    *)
(*                 frames with at most one hand until the ripples are gone *)
(*   SpecMany      onResults over sequences of frames with 0 to 3 hands    *)
(*   SpecSustain   onResults with every plucker plucking in every frame    *)
(*   SpecAudio     AudioService.initialize / resume / playPluck            *)
(*   SpecLife      handleStart, the camera effect, its cleanup             *)
(***************************************************************************)
EXTENDS Integers, Sequences, FiniteSets, TLC

VARIABLES
    \* ---- utils/math.ts under test
    gArgs,            \* the four points handed to getLineIntersection
    gRes,             \* <<>> before the call, then <<result>>
    \* ---- StarryCanvas refs used by onResults
    backgroundRef,    \* TRUE once img.onload has stored the image
    prevHandPosRef,   \* slot -> Point   (Record<string, Point>)
    ripplesRef,       \* Seq of Ripple
    idClock,          \* source of fresh ripple ids (Date.now() + Math.random())
    frameNo,          \* number of frames onResults has processed
    lastFrame,        \* what the last processed frame read, computed and emitted
    spawnLog,         \* every ripple ever spawned: [id, born]
    trail,            \* the frames processed before the last one, latest first
    \* ---- AudioService
    ctx,              \* "null" | "ctx"
    ctxState,         \* "none" | "suspended" | "running"
    masterGain,       \* "null" | "gain"
    reverbNode,       \* "null" | "convolver"
    reverbBuffer,     \* TRUE once reverbNode.buffer has been assigned
    reverbConnected,  \* TRUE once reverbNode.connect(masterGain) has run
    created,          \* how many contexts, gains and convolvers were ever created,
                      \* and how many times initialize() was called
    initPending,      \* initialize() calls suspended at their await
    voices,           \* the voices playPluck has created
    \* ---- StarryCanvas component / camera effect
    life              \* record, see LifeIdle

geomVars  == <<gArgs, gRes>>
frameVars == <<backgroundRef, prevHandPosRef, ripplesRef, idClock, frameNo,
               lastFrame, spawnLog, trail>>
audioVars == <<ctx, ctxState, masterGain, reverbNode, reverbBuffer,
               reverbConnected, created, initPending, voices>>
lifeVars  == <<life>>
vars      == <<gArgs, gRes, backgroundRef, prevHandPosRef, ripplesRef, idClock,
               frameNo, lastFrame, spawnLog, trail, ctx, ctxState, masterGain,
               reverbNode, reverbBuffer, reverbConnected, created, initPending,
               voices, life>>

Point(px, py) == [x |-> px, y |-> py]

(***************************************************************************)
(* utils/math.ts                                                           *)
(***************************************************************************)

\* Largest coordinate of the integer grid getLineIntersection is tried on.
GridMax == 2

Grid == {Point(px, py) : px \in 0..GridMax, py \in 0..GridMax}

\* 0 < n/d && n/d < 1 for the quotient of two integers, d # 0.  The code
\* divides in floating point; for integers of this size the comparison of
\* the quotient with 0 and 1 is exact, so it is decided on n and d.
StrictlyInsideLoose(n, d) ==
    IF d > 0 THEN 0 <= n /\ n <= d ELSE d <= n /\ n <= 0

StrictlyInside(n, d) ==
    IF d > 0 THEN 0 < n /\ n < d ELSE d < n /\ n < 0

Det(p1, p2, p3, p4) ==
    (p2.x - p1.x) * (p4.y - p3.y) - (p4.x - p3.x) * (p2.y - p1.y)

LambdaNum(p1, p2, p3, p4) ==
    (p4.y - p3.y) * (p4.x - p1.x) + (p3.x - p4.x) * (p4.y - p1.y)

GammaNum(p1, p2, p3, p4) ==
    (p1.y - p2.y) * (p4.x - p1.x) + (p2.x - p1.x) * (p4.y - p1.y)

\* Only the first segment's parameter is tested.
getLineIntersectionLambdaOnly(p1, p2, p3, p4) ==
    LET det == Det(p1, p2, p3, p4) IN
    IF det = 0
    THEN FALSE
    ELSE StrictlyInside(LambdaNum(p1, p2, p3, p4), det)

getLineIntersection(p1, p2, p3, p4) ==
    LET det == Det(p1, p2, p3, p4) IN
    IF det = 0
    THEN FALSE
    ELSE /\ StrictlyInside(LambdaNum(p1, p2, p3, p4), det)
         /\ StrictlyInside(GammaNum(p1, p2, p3, p4), det)

(***************************************************************************)
(* AudioService.playPluck, as far as onResults needs it (the rest of the   *)
(* service follows further down)                                           *)
(***************************************************************************)

baseFreq == 200
freqRange == 600
quantStep == 50

\* A number handed to playPluck is kept as the quotient it was computed as.
Ratio(n, d) == [num |-> n, den |-> d]

\* Math.round(v) for v = n/d, d > 0: the integer nearest to v, halves upward.
MathRoundDown(n, d) == n \div d

MathRound(n, d) == (2 * n + d) \div (2 * d)

\* const freq = baseFreq + normalizedX * freqRange;
\* const quantizedFreq = Math.round(freq / 50) * 50;
QuantizedFreq(nx) ==
    MathRound(baseFreq * nx.den + nx.num * freqRange, quantStep * nx.den) * quantStep

\* The voices after playPluck(nx) on a service whose fields are c, mg, rn.
VoicesAfterPluck(vs, nx, c, mg, rn, rbuf, rconn) ==
    IF c = "null" \/ mg = "null" \/ rn = "null"
    THEN vs
    ELSE vs \cup {[arg |-> nx, freq |-> QuantizedFreq(nx), dry |-> mg, wet |-> rn,
                   wetHasBuffer |-> rbuf, wetToMaster |-> rconn]}

(***************************************************************************)
(* StarryCanvas.onResults                                                  *)
(***************************************************************************)

\* canvas.width, canvas.height: a surface 100 wide and 50 high
width == 100
height == 50
\* Landmark coordinates are normalized numbers; a coordinate t stands for t / LmDen.
LmDen == 100
\* hands.setOptions({maxNumHands: 2, ...})
maxNumHands == 2
\* spawnRipple: maxAge: 60
maxAge == 60

ScaleX(t) == (t * width) \div LmDen
ScaleY(t) == (t * height) \div LmDen

Null == <<>>
Some(v) == <<v>>

\* 2. Logic: Find Hands and String  (the loop over results.multiHandLandmarks)
RECURSIVE FindHandsFromLast(_, _, _)
FindHandsFromLast(hands, k, acc) ==
    IF k > Len(hands)
    THEN acc
    ELSE LET landmarks == hands[k]
             indexTip  == Point(ScaleX(landmarks.tip8.x), ScaleY(landmarks.tip8.y))
             middleTip == Point(ScaleX(landmarks.tip12.x), ScaleY(landmarks.tip12.y))
             a1 == IF acc.leftIndex = Null
                   THEN [acc EXCEPT !.leftIndex = Some(indexTip)]
                   ELSE [acc EXCEPT !.rightIndex = Some(indexTip)]
         IN  FindHandsFromLast(hands, k + 1,
                               [a1 EXCEPT !.activePluckers = Append(@, middleTip)])

RECURSIVE FindHandsFrom(_, _, _)
FindHandsFrom(hands, k, acc) ==
    IF k > Len(hands)
    THEN acc
    ELSE LET landmarks == hands[k]
             indexTip  == Point(ScaleX(landmarks.tip8.x), ScaleY(landmarks.tip8.y))
             middleTip == Point(ScaleX(landmarks.tip12.x), ScaleY(landmarks.tip12.y))
             a1 == IF acc.leftIndex = Null
                   THEN [acc EXCEPT !.leftIndex = Some(indexTip)]
                   ELSE IF acc.rightIndex = Null
                        THEN [acc EXCEPT !.rightIndex = Some(indexTip)]
                        ELSE acc
         IN  FindHandsFrom(hands, k + 1,
                           [a1 EXCEPT !.activePluckers = Append(@, middleTip)])

FindHands(hands) ==
    FindHandsFrom(hands, 1,
                  [leftIndex |-> Null, rightIndex |-> Null, activePluckers |-> <<>>])

\* prevHandPosRef.current[key] = plucker, key = `plucker-${i}` (one key per slot i)
SetKeyNever(prev, i, p) == prev

SetKey(prev, i, p) ==
    [k \in (DOMAIN prev) \cup {i} |-> IF k = i THEN p ELSE prev[k]]

\* const normalizedX = plucker.x / width;
NormalizedXByHeight(plucker) == Ratio(plucker.x, height)

NormalizedX(plucker) == Ratio(plucker.x, width)

\* const prev = prevHandPosRef.current[key];   undefined when the key is absent
ReadKey(prev, i) == IF i \in DOMAIN prev THEN Some(prev[i]) ELSE Null

\* if (prev)
TruthyAlways(v) == TRUE

Truthy(v) == v # Null

\* The test the forEach body makes on slot i.
Intersected(prev, plucker, leftIndex, rightIndex) ==
    getLineIntersection(prev, plucker, leftIndex, rightIndex)

\* activePluckers.forEach((plucker, i) => ...), slots i .. Len-1 (0-based), on
\* st = [prev, tests, pluckCalls, spawns, threw].  getLineIntersection reads
\* p1.x: handed undefined it throws a TypeError, which ends the loop and
\* onResults with it.
RECURSIVE Collide(_, _, _, _, _)
Collide(pluckers, i, leftIndex, rightIndex, st) ==
    IF i >= Len(pluckers) \/ st.threw
    THEN st
    ELSE LET plucker == pluckers[i + 1]
             prev    == ReadKey(st.prev, i)
             hasPrev == Truthy(prev)
         IN  IF hasPrev /\ prev = Null
             THEN [st EXCEPT !.threw = TRUE]
             ELSE
               LET hit == hasPrev /\ Intersected(prev[1], plucker, leftIndex, rightIndex)
                   s1 == IF hasPrev
                         THEN [st EXCEPT !.tests = Append(@, [slot |-> i, prev |-> prev[1],
                                                              cur |-> plucker, hit |-> hit])]
                         ELSE st
                   s2 == IF hit
                         THEN [s1 EXCEPT
                                 !.pluckCalls = Append(@, [slot |-> i,
                                                           normalizedX |-> NormalizedX(plucker)]),
                                 !.spawns = Append(@, [slot |-> i, x |-> plucker.x,
                                                       y |-> plucker.y])]
                         ELSE s1
               IN  Collide(pluckers, i + 1, leftIndex, rightIndex,
                           [s2 EXCEPT !.prev = SetKey(@, i, plucker)])

\* 3. Draw String & Check Collisions
CheckCollisionsNoReset(found, prev) ==
    LET st0 == [prev |-> prev, tests |-> <<>>, pluckCalls |-> <<>>, spawns |-> <<>>,
                threw |-> FALSE] IN
    IF found.leftIndex # Null /\ found.rightIndex # Null
    THEN Collide(found.activePluckers, 0, found.leftIndex[1], found.rightIndex[1], st0)
    ELSE st0

CheckCollisions(found, prev) ==
    LET st0 == [prev |-> prev, tests |-> <<>>, pluckCalls |-> <<>>, spawns |-> <<>>,
                threw |-> FALSE] IN
    IF found.leftIndex # Null /\ found.rightIndex # Null
    THEN Collide(found.activePluckers, 0, found.leftIndex[1], found.rightIndex[1], st0)
    ELSE [st0 EXCEPT !.prev = <<>>]

\* spawnRipple(x, y), called once per entry of spawns, ids taken from clock on.
RECURSIVE SpawnAll(_, _, _, _)
SpawnAll(rs, spawns, k, clock) ==
    IF k > Len(spawns)
    THEN rs
    ELSE SpawnAll(Append(rs, [id |-> clock + k, x |-> spawns[k].x, y |-> spawns[k].y,
                              age |-> 0, maxAge |-> maxAge, intensity |-> 1]),
                  spawns, k + 1, clock)

\* 4. ripplesRef.current.forEach: ripple.age++
AgedOldOnly(rs) == [k \in 1..Len(rs) |-> [rs[k] EXCEPT !.age = IF @ = 0 THEN 0 ELSE @ + 1]]

Aged(rs) == [k \in 1..Len(rs) |-> [rs[k] EXCEPT !.age = @ + 1]]

\* life = 1 - age / maxAge, as the quotient (maxAge - age) / maxAge
LifeNum(r) == r.maxAge - r.age
\* if (life <= 0) return;  otherwise the spiral is drawn
DrawnAll(rs) == rs

Drawn(rs) == SelectSeq(rs, LAMBDA r : ~(LifeNum(r) <= 0))

\* ripplesRef.current = ripplesRef.current.filter(...)
CleanupKeepsAll(rs) == rs

\* ripplesRef.current.filter(r => r.age < r.maxAge)
AliveLate(r) == r.age <= r.maxAge

Alive(r) == r.age < r.maxAge

CleanupDead(rs) == SelectSeq(rs, Alive)

RECURSIVE PluckAll(_, _, _)
PluckAll(vs, calls, k) ==
    IF k > Len(calls)
    THEN vs
    ELSE PluckAll(VoicesAfterPluck(vs, calls[k].normalizedX, ctx, masterGain,
                                   reverbNode, reverbBuffer, reverbConnected),
                  calls, k + 1)

NoFrame ==
    [processed |-> FALSE, hands |-> <<>>, n |-> 0, leftIndex |-> Null, rightIndex |-> Null,
     activePluckers |-> <<>>, prevBefore |-> <<>>, tests |-> <<>>,
     pluckCalls |-> <<>>, spawns |-> <<>>, rendered |-> <<>>, threw |-> FALSE]

\* img.onload = () => { backgroundRef.current = img; }
BackgroundOnLoad ==
    /\ ~backgroundRef
    /\ backgroundRef' = TRUE
    /\ UNCHANGED <<prevHandPosRef, ripplesRef, idClock, frameNo, lastFrame, spawnLog,
                   trail>>
    /\ UNCHANGED <<geomVars, audioVars, lifeVars>>

\* What the trail keeps of a frame: its hands and the slots that plucked.
Summary(f) ==
    [n |-> f.n, leftIndex |-> f.leftIndex, rightIndex |-> f.rightIndex,
     activePluckers |-> f.activePluckers,
     pluckSlots |-> {f.pluckCalls[k].slot : k \in 1..Len(f.pluckCalls)}]

FirstN(sq, k) == SubSeq(sq, 1, IF Len(sq) < k THEN Len(sq) ELSE k)

\* onResults(results), results.multiHandLandmarks = hands.  depth: how many
\* earlier frames the trail keeps.  A frame whose collision loop threw ends
\* there: its ripples are neither aged, drawn nor cleaned up.
OnResultsBody(hands, depth) ==
    IF ~backgroundRef
    THEN \* if (!canvas || !ctx || !backgroundRef.current) return;
         UNCHANGED <<frameVars, voices>>
    ELSE
      \E found \in {FindHands(hands)} :
      \E st \in {CheckCollisions(found, prevHandPosRef)} :
      \E pushed \in {SpawnAll(ripplesRef, st.spawns, 1, idClock)} :
      \E aged \in {IF st.threw THEN pushed ELSE Aged(pushed)} :
      \E drawn \in {IF st.threw THEN <<>> ELSE Drawn(aged)} :
          /\ prevHandPosRef' = st.prev
          /\ ripplesRef' = IF st.threw THEN aged ELSE CleanupDead(aged)
          /\ idClock' = idClock + Len(st.spawns)
          /\ frameNo' = frameNo + 1
          /\ spawnLog' = spawnLog \cup
                 {[id |-> idClock + k, born |-> frameNo + 1] : k \in 1..Len(st.spawns)}
          /\ voices' = PluckAll(voices, st.pluckCalls, 1)
          /\ lastFrame' =
                 [processed |-> TRUE, hands |-> hands, n |-> Len(hands),
                  leftIndex |-> found.leftIndex, rightIndex |-> found.rightIndex,
                  activePluckers |-> found.activePluckers,
                  prevBefore |-> prevHandPosRef, tests |-> st.tests,
                  pluckCalls |-> st.pluckCalls, spawns |-> st.spawns,
                  rendered |-> [k \in 1..Len(drawn) |->
                                   [id |-> drawn[k].id, age |-> drawn[k].age]],
                  threw |-> st.threw]
          /\ trail' = IF lastFrame.processed
                      THEN FirstN(<<Summary(lastFrame)>> \o trail, depth)
                      ELSE trail
          /\ UNCHANGED backgroundRef

OnResults(hands, depth) ==
    /\ OnResultsBody(hands, depth)
    /\ UNCHANGED <<gArgs, gRes, ctx, ctxState, masterGain, reverbNode, reverbBuffer,
                   reverbConnected, created, initPending, life>>

(***************************************************************************)
(* Constructed values of each part                                         *)
(***************************************************************************)

GeomIdle ==
    /\ gArgs = <<Point(0, 0), Point(0, 0), Point(0, 0), Point(0, 0)>>
    /\ gRes = <<>>

\* The refs as useRef creates them.
FrameInit ==
    /\ backgroundRef = FALSE
    /\ prevHandPosRef = <<>>
    /\ ripplesRef = <<>>
    /\ idClock = 0
    /\ frameNo = 0
    /\ lastFrame = NoFrame
    /\ spawnLog = {}
    /\ trail = <<>>

\* new AudioService()
AudioInit ==
    /\ ctx = "null"
    /\ ctxState = "none"
    /\ masterGain = "null"
    /\ reverbNode = "null"
    /\ reverbBuffer = FALSE
    /\ reverbConnected = FALSE
    /\ created = [ctx |-> 0, gain |-> 0, convolver |-> 0, calls |-> 0]
    /\ initPending = 0
    /\ voices = {}

\* The service once handleStart's awaited initialize() and resume() are done,
\* which is when frames start to arrive.
AudioReady ==
    /\ ctx = "ctx"
    /\ ctxState = "running"
    /\ masterGain = "gain"
    /\ reverbNode = "convolver"
    /\ reverbBuffer = TRUE
    /\ reverbConnected = TRUE
    /\ created = [ctx |-> 1, gain |-> 1, convolver |-> 1, calls |-> 1]
    /\ initPending = 0
    /\ voices = {}

\* The component as first rendered; handsLoaded: the script tag has defined
\* window.Hands.
LifeIdle ==
    life = [mounted |-> TRUE, permissionGranted |-> FALSE, hs |-> 0,
            effect |-> "none", handsLoaded |-> TRUE, hands |-> "null",
            gum |-> "none", stream |-> "null", tracksLive |-> FALSE,
            meta |-> "none", loop |-> "off", isLoaded |-> FALSE,
            cleanupRan |-> FALSE, sends |-> 0]

\* The component while the frame loop runs: camera granted, a hands.send pending.
LifeRunning ==
    life = [mounted |-> TRUE, permissionGranted |-> TRUE, hs |-> 0,
            effect |-> "ran", handsLoaded |-> TRUE, hands |-> "open",
            gum |-> "resolved", stream |-> "set", tracksLive |-> TRUE,
            meta |-> "fired", loop |-> "sending", isLoaded |-> TRUE,
            cleanupRan |-> FALSE, sends |-> 1]

(***************************************************************************)
(* SpecGeom: getLineIntersection on every four points of the grid          *)
(***************************************************************************)

GeomCall ==
    /\ gRes = <<>>
    /\ gRes' = <<getLineIntersection(gArgs[1], gArgs[2], gArgs[3], gArgs[4])>>
    /\ UNCHANGED <<gArgs, frameVars, audioVars, lifeVars>>

InitGeom ==
    /\ gArgs \in Grid \X Grid \X Grid \X Grid
    /\ gRes = <<>>
    /\ FrameInit /\ AudioInit /\ LifeIdle

NextGeom == GeomCall

SpecGeom == InitGeom /\ [][NextGeom]_vars

(***************************************************************************)
(* Spec: frames from the tracker as configured                             *)
(***************************************************************************)

\* Number of frames a run processes.
MaxFrames == 3

\* Landmark 8 (index tip) and landmark 12 (middle tip) of a detected hand, in
\* units of 1 / LmDen: index tips at the two ends of a horizontal string,
\* middle tips above it, just above it and, at two places, below it.
IdxTicks == {Point(0, 0), Point(100, 0)}
MidTicks == {Point(50, -20), Point(50, -2), Point(20, 20), Point(50, 20)}

HandSeqs(n, idx, mid) == [1..n -> [tip8 : idx, tip12 : mid]]

Frame ==
    \E n \in 0..maxNumHands : \E hands \in HandSeqs(n, IdxTicks, MidTicks) :
        /\ frameNo < MaxFrames
        /\ OnResults(hands, 1)

Init == GeomIdle /\ FrameInit /\ AudioReady /\ LifeRunning

Next == BackgroundOnLoad \/ Frame

Spec == Init /\ [][Next]_vars

(***************************************************************************)
(* SpecAnyHands: one onResults call on any HandResults, also with more     *)
(* hands than the tracker is configured to report                          *)
(***************************************************************************)

\* Most hands in a frame handed to onResults directly.
MaxHandsAny == 3

IdxAny == {Point(0, 0), Point(100, 0), Point(50, 40)}
MidAny == {Point(50, -20), Point(50, 20)}

FrameAny ==
    \E n \in 0..MaxHandsAny : \E hands \in HandSeqs(n, IdxAny, MidAny) :
        /\ ~lastFrame.processed
        /\ OnResults(hands, 1)

InitAny == Init

NextAny == BackgroundOnLoad \/ FrameAny

SpecAnyHands == InitAny /\ [][NextAny]_vars

(***************************************************************************)
(* SpecCross: a plucker moving about a string that stays where it is, the  *)
(* trail keeping the two frames before the last                            *)
(***************************************************************************)

\* Number of frames a SpecCross run processes.
CrossFrames == 3

\* No hands, or two hands holding the string (0,0)-(100,0), each middle tip
\* above, on or below it.
MidCross == {Point(50, -20), Point(50, 0), Point(50, 20)}
CrossHands ==
    {<<>>} \cup
    {<<[tip8 |-> Point(0, 0), tip12 |-> m1], [tip8 |-> Point(100, 0), tip12 |-> m2]>> :
        m1 \in MidCross, m2 \in MidCross}

FrameCross ==
    \E hands \in CrossHands :
        /\ frameNo < CrossFrames
        /\ OnResults(hands, 2)

NextCross == BackgroundOnLoad \/ FrameCross

SpecCross == Init /\ [][NextCross]_vars

(***************************************************************************)
(* SpecRipple: runs long enough for a ripple to live out its maxAge        *)
(***************************************************************************)

\* Number of frames a SpecRipple run processes: the first pluck is in frame 2
\* at the earliest, and its ripple is removed maxAge - 1 frames later.
RippleFrames == 62
\* Hands are in view until this many ripples have been spawned.
MaxSpawns == 1

\* No hands, or two hands holding the string (0,0)-(100,0), the first middle
\* tip above or below it and the second one resting above it.
RippleHands ==
    {<<[tip8 |-> Point(0, 0), tip12 |-> m1],
       [tip8 |-> Point(100, 0), tip12 |-> Point(50, -20)]>> :
        m1 \in {Point(50, -20), Point(50, 20)}}

FrameRipple ==
    \E hands \in {<<>>} \cup (IF idClock < MaxSpawns THEN RippleHands ELSE {}) :
        /\ frameNo < RippleFrames
        /\ OnResults(hands, 0)

NextRipple == BackgroundOnLoad \/ FrameRipple

SpecRipple == Init /\ [][NextRipple]_vars

(***************************************************************************)
(* SpecDecay: a few frames with any number of hands, then frames with at   *)
(* most one hand until every ripple has lived out its maxAge               *)
(***************************************************************************)

\* Number of frames a SpecDecay run processes: the last pluck is in frame
\* HandFrames at the latest, and its ripple is removed maxAge - 1 frames later.
DecayFrames == 63
\* Two or more hands are in view during the first HandFrames frames only.
HandFrames == 3

\* Hand k of a frame has its index tip at IdxAt[k]; the frame is given by its
\* middle tips, each above or below the string (0,0)-(100,0).
IdxAt == <<Point(0, 0), Point(100, 0), Point(50, 40)>>
TipsToHands(tips) == [k \in 1..Len(tips) |-> [tip8 |-> IdxAt[k], tip12 |-> tips[k]]]
FewTips == {<<>>, <<Point(50, -20)>>}
DecayTips ==
    FewTips \cup
    {<<Point(50, -20), Point(50, -20)>>, <<Point(50, 20), Point(50, 20)>>,
     <<Point(50, -20), Point(50, 20)>>,
     <<Point(50, -20), Point(50, -20), Point(50, -20)>>,
     <<Point(50, 20), Point(50, 20), Point(50, 20)>>}

FrameDecay ==
    \E tips \in (IF frameNo < HandFrames THEN DecayTips ELSE FewTips) :
        /\ frameNo < DecayFrames
        /\ OnResults(TipsToHands(tips), 0)

NextDecay == BackgroundOnLoad \/ FrameDecay

SpecDecay == Init /\ [][NextDecay]_vars

(***************************************************************************)
(* SpecMany: onResults over sequences of frames with up to three hands,    *)
(* the number of hands changing freely from frame to frame                 *)
(***************************************************************************)

\* Number of frames a SpecMany run processes.
ManyFrames == 3

\* No hand, or one to three hands, each middle tip above or below the string.
ManyTips ==
    {<<>>} \cup
    UNION {[1..n -> {Point(50, -20), Point(50, 20)}] : n \in 1..Len(IdxAt)}

FrameMany ==
    \E tips \in ManyTips :
        /\ frameNo < ManyFrames
        /\ OnResults(TipsToHands(tips), 1)

NextMany == BackgroundOnLoad \/ FrameMany

SpecMany == Init /\ [][NextMany]_vars

(***************************************************************************)
(* SpecSustain: every plucker crosses the string in every frame for as     *)
(* long as the hands stay in view; once they are gone the frames are empty *)
(***************************************************************************)

\* Number of frames a SpecSustain run processes: maxAge frames of plucking
\* fill the live set, maxAge more without hands drain it.
SustainFrames == 122
\* Number of hands in view while the plucking lasts.
SustainHands == 2

\* All middle tips above the string in one frame, below it in the next.
SustainTips ==
    [k \in 1..SustainHands |->
        IF frameNo % 2 = 0 THEN Point(50, -20) ELSE Point(50, 20)]

FrameSustain ==
    \E tips \in {<<>>} \cup
                 (IF ~lastFrame.processed \/ lastFrame.n > 0 THEN {SustainTips} ELSE {}) :
        /\ frameNo < SustainFrames
        /\ OnResults(TipsToHands(tips), 0)

NextSustain == BackgroundOnLoad \/ FrameSustain

SpecSustain == Init /\ [][NextSustain]_vars

(***************************************************************************)
(* AudioService                                                            *)
(***************************************************************************)

\* if (this.ctx) return;
InitializeReturnsOnceReady == reverbBuffer

InitializeReturns == ctx # "null"

\* initialize(), from the call to its return or to its await.  A context made
\* outside a user gesture starts suspended, one made inside it running.
InitializeBody ==
    IF InitializeReturns
    THEN /\ created' = [created EXCEPT !.calls = @ + 1]
         /\ UNCHANGED <<ctx, ctxState, masterGain, reverbNode, reverbBuffer,
                        reverbConnected, initPending, voices>>
    ELSE /\ ctx' = "ctx"
         /\ ctxState' \in {"suspended", "running"}
         /\ masterGain' = "gain"
         /\ reverbNode' = "convolver"
         /\ reverbBuffer' = FALSE
         /\ reverbConnected' = FALSE
         /\ created' = [ctx |-> created.ctx + 1, gain |-> created.gain + 1,
                        convolver |-> created.convolver + 1,
                        calls |-> created.calls + 1]
         /\ initPending' = initPending + 1
         /\ UNCHANGED voices

\* initialize() resumed after await this.createImpulseResponse(2.0, 2.0, false)
InitializeAfterAwait ==
    /\ initPending > 0
    /\ reverbBuffer' = TRUE
    /\ reverbConnected' = TRUE
    /\ initPending' = initPending - 1
    /\ UNCHANGED <<ctx, ctxState, masterGain, reverbNode, created, voices>>

\* resume(): ctx.resume() is taken to have taken effect when it returns.
ResumeBody ==
    /\ ctxState' = IF ctx # "null" /\ ctxState = "suspended" THEN "running" ELSE ctxState
    /\ UNCHANGED <<ctx, masterGain, reverbNode, reverbBuffer, reverbConnected,
                   created, initPending, voices>>

PlayPluckBody(nx) ==
    /\ voices' = VoicesAfterPluck(voices, nx, ctx, masterGain, reverbNode,
                                  reverbBuffer, reverbConnected)
    /\ UNCHANGED <<ctx, ctxState, masterGain, reverbNode, reverbBuffer,
                   reverbConnected, created, initPending>>

(***************************************************************************)
(* SpecAudio: any caller of the exported audioService                      *)
(***************************************************************************)

\* Number of initialize() calls in a run.
MaxInitCalls == 3
\* Number of voices in a run.
MaxVoices == 2
\* playPluck is called with the arguments k / NxDen, k = 0 .. NxDen.
NxDen == 40

Initialize ==
    /\ created.calls < MaxInitCalls
    /\ InitializeBody
    /\ UNCHANGED <<geomVars, frameVars, lifeVars>>

InitializeResumed ==
    /\ InitializeAfterAwait
    /\ UNCHANGED <<geomVars, frameVars, lifeVars>>

Resume ==
    /\ ResumeBody
    /\ UNCHANGED <<geomVars, frameVars, lifeVars>>

PlayPluck ==
    \E k \in 0..NxDen :
        /\ Cardinality(voices) < MaxVoices
        /\ PlayPluckBody(Ratio(k, NxDen))
        /\ UNCHANGED <<geomVars, frameVars, lifeVars>>

InitAudio == GeomIdle /\ FrameInit /\ AudioInit /\ LifeIdle

NextAudio == Initialize \/ InitializeResumed \/ Resume \/ PlayPluck

SpecAudio == InitAudio /\ [][NextAudio]_vars

(***************************************************************************)
(* SpecLife: handleStart, the camera effect and its cleanup                *)
(***************************************************************************)

\* Number of hands.send calls in a run.
MaxSends == 3

\* No continuation of an async function is waiting on an already settled
\* promise: the browser runs those before it dispatches the next event.
Quiet == initPending = 0 /\ life.hs = 0

\* onClick={handleStart}, up to await audioService.initialize().  The button
\* is rendered while !permissionGranted.
HandleStart ==
    /\ Quiet /\ life.mounted /\ ~life.permissionGranted
    /\ created.calls < MaxInitCalls
    /\ InitializeBody
    /\ life' = [life EXCEPT !.hs = 1]
    /\ UNCHANGED <<geomVars, frameVars>>

\* initialize() resumed after its await, within handleStart's await.
HandleStartInitResumed ==
    /\ InitializeAfterAwait
    /\ UNCHANGED <<geomVars, frameVars, lifeVars>>

\* handleStart after its await: audioService.resume(); setPermissionGranted(true);
HandleStartResumed ==
    /\ life.hs = 1 /\ initPending = 0
    /\ ResumeBody
    /\ life' = [life EXCEPT !.hs = 0, !.permissionGranted = TRUE]
    /\ UNCHANGED <<geomVars, frameVars>>

\* if (!permissionGranted) return;
EffectRunsAlways == TRUE

EffectRuns == life.permissionGranted

\* useEffect(() => { if (!permissionGranted) return; ... start(); ... }): the
\* effect body and start() up to await getUserMedia.
EffectStart ==
    /\ Quiet /\ life.mounted /\ EffectRuns /\ life.effect = "none"
    /\ \E loaded \in BOOLEAN :
         life' = [life EXCEPT !.effect = "ran", !.handsLoaded = loaded,
                              !.hands = IF loaded THEN "open" ELSE "null",
                              !.gum = IF loaded THEN "pending" ELSE "none"]
    /\ UNCHANGED <<geomVars, frameVars, audioVars>>

\* getUserMedia fulfils: stream = ...; videoRef.current.srcObject = stream;
\* videoRef.current.onloadedmetadata = ...  (videoRef.current is null once the
\* component is unmounted: the assignment throws into the catch)
GetUserMediaResolved ==
    /\ Quiet /\ life.gum = "pending"
    /\ life' = [life EXCEPT !.gum = "resolved", !.stream = "set", !.tracksLive = TRUE,
                            !.meta = IF life.mounted THEN "armed" ELSE "none"]
    /\ UNCHANGED <<geomVars, frameVars, audioVars>>

\* getUserMedia rejects: catch (err) { console.error(...) }
GetUserMediaRejected ==
    /\ Quiet /\ life.gum = "pending"
    /\ life' = [life EXCEPT !.gum = "rejected"]
    /\ UNCHANGED <<geomVars, frameVars, audioVars>>

\* processVideo(), entered with no send under way: the loop state it leaves.
\* playing: the video is neither paused nor ended.
ProcessVideoEntry(l, playing) ==
    IF l.mounted /\ l.hands # "null"
    THEN IF playing
         THEN [l EXCEPT !.loop = "sending", !.sends = @ + 1]
         ELSE [l EXCEPT !.loop = "raf"]
    ELSE [l EXCEPT !.loop = "off"]

\* videoRef.current.onloadedmetadata: play(); setIsLoaded(true); processVideo();
LoadedMetadata ==
    /\ Quiet /\ life.meta = "armed"
    /\ \E playing \in BOOLEAN :
         /\ playing => life.sends < MaxSends
         /\ life' = ProcessVideoEntry([life EXCEPT !.meta = "fired", !.isLoaded = TRUE],
                                      playing)
    /\ UNCHANGED <<geomVars, frameVars, audioVars>>

\* The frames the tracker reports in a SpecLife run.
LifeHands ==
    {<<>>,
     <<[tip8 |-> Point(0, 0), tip12 |-> Point(50, -20)],
       [tip8 |-> Point(100, 0), tip12 |-> Point(50, 20)]>>,
     <<[tip8 |-> Point(0, 0), tip12 |-> Point(50, 20)],
       [tip8 |-> Point(100, 0), tip12 |-> Point(50, -20)]>>}

\* await hands.send({image}) completes on an open tracker: onResults has been
\* called with the frame's results; then animationFrameId = requestAnimationFrame(...)
SendDone ==
    /\ Quiet /\ life.loop = "sending" /\ life.hands = "open"
    /\ \E hands \in LifeHands : OnResultsBody(hands, 1)
    /\ life' = [life EXCEPT !.loop = "raf"]
    /\ UNCHANGED <<geomVars, ctx, ctxState, masterGain, reverbNode, reverbBuffer,
                   reverbConnected, created, initPending>>

\* await hands.send({image}) on a tracker closed meanwhile: the library either
\* settles the call or rejects it.  Should it still hand results to onResults,
\* canvasRef.current is null by then and onResults returns at its first test.
SendOnClosed ==
    /\ Quiet /\ life.loop = "sending" /\ life.hands = "closed"
    /\ \E rejected \in BOOLEAN :
         life' = [life EXCEPT !.loop = IF rejected THEN "off" ELSE "raf"]
    /\ UNCHANGED <<geomVars, frameVars, audioVars>>

\* The animation frame fires: processVideo()
AnimationFrame ==
    /\ Quiet /\ life.loop = "raf"
    /\ \E playing \in BOOLEAN :
         /\ playing => life.sends < MaxSends
         /\ life' = ProcessVideoEntry(life, playing)
    /\ UNCHANGED <<geomVars, frameVars, audioVars>>

\* The effect's cleanup: cancelAnimationFrame(animationFrameId);
\* if (hands) hands.close(); if (stream) stream.getTracks().forEach(stop)
Cleanup(l) ==
    [l EXCEPT !.cleanupRan = TRUE,
              !.loop = IF l.loop = "raf" THEN "off" ELSE l.loop,
              !.hands = IF l.hands # "null" THEN "closed" ELSE l.hands,
              !.tracksLive = IF l.stream # "null" THEN FALSE ELSE l.tracksLive]

\* The component is unmounted: React clears videoRef and runs the cleanup of
\* the effect if it has run past its first line.
Unmount ==
    /\ Quiet /\ life.mounted
    /\ life' = IF life.effect = "ran"
               THEN Cleanup([life EXCEPT !.mounted = FALSE])
               ELSE [life EXCEPT !.mounted = FALSE]
    /\ UNCHANGED <<geomVars, frameVars, audioVars>>

BackgroundLoaded == Quiet /\ BackgroundOnLoad

InitLife == GeomIdle /\ FrameInit /\ AudioInit /\ LifeIdle

NextLife ==
    \/ HandleStart \/ HandleStartInitResumed \/ HandleStartResumed
    \/ EffectStart \/ GetUserMediaResolved \/ GetUserMediaRejected
    \/ LoadedMetadata \/ SendDone \/ SendOnClosed \/ AnimationFrame
    \/ Unmount \/ BackgroundLoaded

SpecLife == InitLife /\ [][NextLife]_vars

(***************************************************************************)
(* Claims                                                                  *)
(***************************************************************************)

\* Reference test, independent of the parametric formulation: c lies to the
\* left (> 0), to the right (< 0) or on (= 0) the line through a and b.
Orient(a, b, c) == (b.x - a.x) * (c.y - a.y) - (b.y - a.y) * (c.x - a.x)
OppositeSides(u, v) == (u > 0 /\ v < 0) \/ (u < 0 /\ v > 0)
\* Segments a-b and c-d cross properly: each segment's ends lie strictly on
\* opposite sides of the other segment's line.
ProperCross(a, b, c, d) ==
    /\ OppositeSides(Orient(a, b, c), Orient(a, b, d))
    /\ OppositeSides(Orient(c, d, a), Orient(c, d, b))

\* C3: for all four grid points, getLineIntersection(p1,p2,p3,p4) is true
\* exactly when segment p1-p2 properly crosses segment p3-p4 (false on
\* endpoint touches, parallel, collinear, identical and zero-length pairs).
C3_ProperCrossing ==
    gRes # <<>> =>
        gRes[1] = ProperCross(gArgs[1], gArgs[2], gArgs[3], gArgs[4])

\* A proper crossing of the two diagonals of the grid was reported.
C3_Witness ==
    /\ gRes = <<TRUE>>
    /\ gArgs = <<Point(0, 0), Point(2, 2), Point(0, 2), Point(2, 0)>>

\* C12: for all four grid points, the result of getLineIntersection is the
\* same when the two segments swap roles:
\* getLineIntersection(p1,p2,p3,p4) = getLineIntersection(p3,p4,p1,p2).
C12_SwapSymmetric ==
    gRes # <<>> =>
        gRes[1] = getLineIntersection(gArgs[3], gArgs[4], gArgs[1], gArgs[2])

\* The call was made on a segment that ends on the other segment's line
\* without reaching across it, and answered FALSE: the parameter of the
\* segment that stops short is at the end of its range, whichever role it has.
C12_Witness ==
    /\ gRes = <<FALSE>>
    /\ gArgs = <<Point(0, 0), Point(2, 0), Point(1, 2), Point(1, 0)>>

\* ---- the last processed frame, as the claims read it

HasAnchors(f) == f.leftIndex # Null /\ f.rightIndex # Null
PluckSlots(f) == {f.pluckCalls[k].slot : k \in 1..Len(f.pluckCalls)}
SameRatio(r, n, d) == r.num * d = n * r.den

CrossingSlots(f) ==
    IF HasAnchors(f)
    THEN {i \in 0..(Len(f.activePluckers) - 1) :
            /\ i \in DOMAIN f.prevBefore
            /\ ProperCross(f.prevBefore[i], f.activePluckers[i + 1],
                           f.leftIndex[1], f.rightIndex[1])}
    ELSE {}

\* C4: in a processed frame, exactly the slots with a previous position whose
\* motion segment crosses the anchor segment get one playPluck call, with
\* argument current.x / width, and one ripple, spawned at the current position
\* and live at the end of the frame; no other call or ripple is made, and the
\* two counts are equal and at most the number of pluckers.  With anchors
\* (0,0)-(100,0), (50,-10) -> (50,10) plucks at 0.5 and (50,-10) -> (50,-1)
\* does not pluck.
C4_PluckPerCrossingSlot ==
    lastFrame.processed =>
        LET f == lastFrame IN
        /\ PluckSlots(f) = CrossingSlots(f)
        /\ Len(f.pluckCalls) = Cardinality(CrossingSlots(f))
        /\ Len(f.spawns) = Len(f.pluckCalls)
        /\ Len(f.pluckCalls) <= Len(f.activePluckers)
        /\ \A k \in 1..Len(f.pluckCalls) :
              LET cur == f.activePluckers[f.pluckCalls[k].slot + 1] IN
              /\ SameRatio(f.pluckCalls[k].normalizedX, cur.x, width)
              /\ f.spawns[k].slot = f.pluckCalls[k].slot
              /\ f.spawns[k].x = cur.x /\ f.spawns[k].y = cur.y
        /\ Cardinality({k \in 1..Len(ripplesRef) : ripplesRef[k].age = 1}) = Len(f.spawns)
        /\ \A k \in 1..Len(f.spawns) :
              \E j \in 1..Len(ripplesRef) :
                  /\ ripplesRef[j].age = 1
                  /\ ripplesRef[j].x = f.spawns[k].x /\ ripplesRef[j].y = f.spawns[k].y
        /\ \A i \in DOMAIN f.prevBefore :
              (/\ HasAnchors(f) /\ i < Len(f.activePluckers)
               /\ f.leftIndex[1] = Point(0, 0) /\ f.rightIndex[1] = Point(100, 0)
               /\ f.prevBefore[i] = Point(50, -10))
              => /\ f.activePluckers[i + 1] = Point(50, 10) =>
                      \E k \in 1..Len(f.pluckCalls) :
                          /\ f.pluckCalls[k].slot = i
                          /\ SameRatio(f.pluckCalls[k].normalizedX, 1, 2)
                 /\ f.activePluckers[i + 1] = Point(50, -1) => i \notin PluckSlots(f)

\* Slot 0 went (50,-10) -> (50,10) across the string (0,0)-(100,0) and slot 1
\* went (50,-10) -> (50,-1): one call, at 0.5, and one ripple at (50,10).
C4_Witness ==
    /\ HasAnchors(lastFrame)
    /\ lastFrame.leftIndex[1] = Point(0, 0) /\ lastFrame.rightIndex[1] = Point(100, 0)
    /\ 0 \in DOMAIN lastFrame.prevBefore /\ 1 \in DOMAIN lastFrame.prevBefore
    /\ lastFrame.prevBefore[0] = Point(50, -10) /\ lastFrame.prevBefore[1] = Point(50, -10)
    /\ lastFrame.activePluckers = <<Point(50, 10), Point(50, -1)>>
    /\ Len(lastFrame.pluckCalls) = 1
    /\ lastFrame.pluckCalls[1] = [slot |-> 0, normalizedX |-> Ratio(50, 100)]
    /\ Len(ripplesRef) = 1 /\ ripplesRef[1].x = 50 /\ ripplesRef[1].y = 10

ScaledTo(v, t, dim) == v * LmDen = t * dim
IsTip(p, lm) == ScaledTo(p.x, lm.x, width) /\ ScaledTo(p.y, lm.y, height)

OnInterior(p, a, b) ==
    /\ Orient(a, b, p) = 0
    /\ (p.x - a.x) * (b.x - a.x) + (p.y - a.y) * (b.y - a.y) > 0
    /\ (p.x - b.x) * (a.x - b.x) + (p.y - b.y) * (a.y - b.y) > 0
\* p and q lie strictly on opposite sides of the line through a and b.
StrictlyAcross(p, q, a, b) == OppositeSides(Orient(a, b, p), Orient(a, b, q))
SameString(f, g) ==
    /\ HasAnchors(f) /\ HasAnchors(g)
    /\ f.leftIndex = g.leftIndex /\ f.rightIndex = g.rightIndex
PluckCount(f, i) == Cardinality({k \in 1..Len(f.pluckCalls) : f.pluckCalls[k].slot = i})

\* C10: with both anchors present and fixed over consecutive frames, a slot
\* that goes from strictly one side of the string to strictly the other
\* through the string's interior, in one step or with one frame in between in
\* which it lies exactly on the string, gets exactly one pluck over that run.
C10_OnePluckPerCrossing ==
    (lastFrame.processed /\ HasAnchors(lastFrame)) =>
        LET f == lastFrame
            a == f.leftIndex[1]
            b == f.rightIndex[1]
        IN  \A i \in 0..(Len(f.activePluckers) - 1) :
              LET p2 == f.activePluckers[i + 1] IN
              /\ (/\ Len(trail) >= 1 /\ SameString(trail[1], f)
                  /\ i < Len(trail[1].activePluckers)
                  /\ ProperCross(trail[1].activePluckers[i + 1], p2, a, b))
                 => PluckCount(f, i) = 1
              /\ (/\ Len(trail) >= 2 /\ SameString(trail[1], f) /\ SameString(trail[2], f)
                  /\ i < Len(trail[1].activePluckers) /\ i < Len(trail[2].activePluckers)
                  /\ OnInterior(trail[1].activePluckers[i + 1], a, b)
                  /\ StrictlyAcross(trail[2].activePluckers[i + 1], p2, a, b))
                 => PluckCount(f, i) + (IF i \in trail[1].pluckSlots THEN 1 ELSE 0) = 1

LiveWithId(id) == {k \in 1..Len(ripplesRef) : ripplesRef[k].id = id}

\* C5 as stated, the live set being read after each frame: a ripple spawned
\* in frame t is in the live set after each of the maxAge frames
\* t .. t + maxAge - 1 and after no later frame.
C5_LiveForMaxAgeFrames ==
    \A e \in spawnLog :
        (LiveWithId(e.id) # {}) = (frameNo <= e.born + maxAge - 1)

\* C5, amended: a ripple spawned in frame t (with age 0, and aged in that
\* same frame) is in the live set after frame f with age f - t + 1 for each
\* of the maxAge - 1 frames f = t .. t + maxAge - 2, and is in it after no
\* later frame: frame t + maxAge - 1, the maxAge-th that ages it, removes it.
C5_LiveUntilAgedMaxAge ==
    \A e \in spawnLog :
        IF frameNo <= e.born + maxAge - 2
        THEN /\ Cardinality(LiveWithId(e.id)) = 1
             /\ \A k \in LiveWithId(e.id) :
                    /\ ripplesRef[k].age = frameNo - e.born + 1
                    /\ ripplesRef[k].maxAge = maxAge
        ELSE LiveWithId(e.id) = {}

\* The frame that ages a ripple for the maxAge-th time has just removed it,
\* and frames went on after that.
C5_Witness ==
    \E e \in spawnLog :
        /\ frameNo > e.born + maxAge - 1
        /\ ripplesRef = <<>>
        /\ lastFrame.rendered = <<>>

\* after is before with every ripple one frame older and those that have
\* reached their maxAge taken out, the others in their order.
AdvancedFrom(before, after) ==
    LET keep == SelectSeq(before, LAMBDA r : r.age + 1 < r.maxAge) IN
    /\ Len(after) = Len(keep)
    /\ \A k \in 1..Len(keep) : after[k] = [keep[k] EXCEPT !.age = @ + 1]

\* C11: no processed frame, whatever its number of hands and whatever the
\* history, ends in an exception; a frame with fewer than two hands runs no
\* crossing test, calls playPluck for no slot, spawns no ripple and leaves
\* prevHandPosRef empty, and it still ages every existing ripple by one and
\* removes those that reach maxAge.
C11_FewHandsFrame ==
    /\ [](lastFrame.processed =>
            /\ ~lastFrame.threw
            /\ lastFrame.n = Len(lastFrame.hands)
            /\ lastFrame.n < 2 =>
                  /\ lastFrame.tests = <<>>
                  /\ lastFrame.pluckCalls = <<>>
                  /\ lastFrame.spawns = <<>>
                  /\ prevHandPosRef = <<>>)
    /\ [][(frameNo' = frameNo + 1 /\ lastFrame'.n < 2) =>
            /\ AdvancedFrom(ripplesRef, ripplesRef')
            /\ voices' = voices
            /\ idClock' = idClock]_vars

\* A one-hand frame right after a frame with anchors and history: the keys
\* it found are gone, and the ripple of the pluck before it has aged to 2.
C11_Witness ==
    /\ lastFrame.processed /\ lastFrame.n = 1 /\ ~lastFrame.threw
    /\ DOMAIN lastFrame.prevBefore = {0, 1}
    /\ prevHandPosRef = <<>>
    /\ Len(ripplesRef) = 1 /\ ripplesRef[1].age = 2

\* C13: whenever slot i is tested in a frame, the previous point of the test
\* is slot i's plucker position in the frame processed just before, whatever
\* the numbers of hands of the frames were, and the position stored for the
\* slot is the current one once the test has been made.
C13_PrevIsLastFrame ==
    lastFrame.processed =>
        \A k \in 1..Len(lastFrame.tests) :
            LET t == lastFrame.tests[k] IN
            /\ trail # <<>>
            /\ t.slot < Len(trail[1].activePluckers)
            /\ t.prev = trail[1].activePluckers[t.slot + 1]
            /\ t.prev = lastFrame.prevBefore[t.slot]
            /\ t.cur = lastFrame.activePluckers[t.slot + 1]
            /\ prevHandPosRef[t.slot] = t.cur

\* C14: a processed frame ages every ripple exactly once, the ripples it
\* spawns included, and then removes those whose age has reached maxAge: the
\* ripples it found are each one older or, at maxAge, gone, and behind them
\* stands one ripple of age 1 per spawn of the frame, at the spawn's position.
C14_AdvanceOncePerFrame ==
    [][frameNo' = frameNo + 1 =>
         LET kept  == Len(SelectSeq(ripplesRef, LAMBDA r : r.age + 1 < r.maxAge))
             fresh == lastFrame'.spawns
         IN  /\ Len(ripplesRef') = kept + Len(fresh)
             /\ AdvancedFrom(ripplesRef, SubSeq(ripplesRef', 1, kept))
             /\ \A k \in 1..Len(fresh) :
                    /\ ripplesRef'[kept + k].age = 1
                    /\ ripplesRef'[kept + k].x = fresh[k].x
                    /\ ripplesRef'[kept + k].y = fresh[k].y
             /\ \A k \in 1..Len(ripplesRef') : ripplesRef'[k].age < maxAge]_vars

\* Two ripples were spawned in the frame before the last and two more in the
\* last one: the older pair has been aged twice, the newer pair once.
C14_Witness ==
    /\ lastFrame.processed /\ Len(lastFrame.spawns) = 2
    /\ Len(ripplesRef) = 4
    /\ ripplesRef[1].age = 2 /\ ripplesRef[2].age = 2
    /\ ripplesRef[3].age = 1 /\ ripplesRef[4].age = 1

\* C15: every ripple a frame draws has 1 <= age < maxAge when it is drawn
\* (its life 1 - age / maxAge is positive), and every ripple in the live set
\* at the end of a frame has 1 <= age < maxAge.
C15_DrawnAlive ==
    /\ \A k \in 1..Len(lastFrame.rendered) :
           /\ 1 <= lastFrame.rendered[k].age
           /\ lastFrame.rendered[k].age < maxAge
           /\ maxAge - lastFrame.rendered[k].age > 0
    /\ \A k \in 1..Len(ripplesRef) :
           /\ 1 <= ripplesRef[k].age
           /\ ripplesRef[k].age < ripplesRef[k].maxAge
           /\ ripplesRef[k].maxAge = maxAge

\* A ripple was spawned in frame t; the frame that ages it for the maxAge-th
\* time has been processed and has drawn nothing.
C15_Witness ==
    /\ lastFrame.processed /\ lastFrame.rendered = <<>> /\ ripplesRef = <<>>
    /\ \E e \in spawnLog : frameNo = e.born + maxAge - 1
    /\ \A e \in spawnLog : frameNo >= e.born + maxAge - 1

\* C16: every voice playPluck has created, in any interleaving of
\* initialize(), resume() and playPluck(), a playPluck during the await of
\* initialize() included, is connected to the master gain and to a reverb
\* node that had its buffer and its connection to the master gain when the
\* voice was created.
C16_VoicesFullyRouted ==
    \A v \in voices :
        /\ v.dry = "gain" /\ v.wet = "convolver"
        /\ v.wetHasBuffer /\ v.wetToMaster

ServiceReady ==
    /\ ctx = "ctx" /\ masterGain = "gain" /\ reverbNode = "convolver"
    /\ reverbBuffer /\ reverbConnected /\ initPending = 0

\* C17: the service leaves the uninitialized state only in a step of
\* handleStart, never goes back (nor loses its buffer and connection once it
\* has them), no frame is sent or processed and no voice exists before
\* handleStart's awaited initialize() has completed, and playPluck on the
\* uninitialized service creates no voice.
C17_OneWayGate ==
    /\ [][/\ (ctx = "null" /\ ctx' # "null") => (life.hs = 0 /\ life'.hs = 1)
          /\ ctx # "null" =>
                (ctx' = ctx /\ masterGain' = masterGain /\ reverbNode' = reverbNode)
          /\ (reverbBuffer /\ reverbConnected) => (reverbBuffer' /\ reverbConnected')
         ]_vars
    /\ []((frameNo > 0 \/ life.sends > 0 \/ voices # {} \/ life.permissionGranted)
            => ServiceReady)
    /\ [](ctx = "null" =>
            /\ masterGain = "null" /\ reverbNode = "null"
            /\ \A k \in 0..NxDen :
                   VoicesAfterPluck(voices, Ratio(k, NxDen), ctx, masterGain, reverbNode,
                                    reverbBuffer, reverbConnected) = voices)

\* Frames have been processed after handleStart and one of them plucked: the
\* voice was created on the ready service.
C17_Witness ==
    /\ frameNo >= 2 /\ voices # {} /\ ServiceReady
    /\ life.permissionGranted /\ life.hs = 0 /\ created.calls = 1

\* C18: once the cleanup of the effect has run, no hands.send is issued, no
\* requestAnimationFrame(processVideo) is scheduled and no frame is processed.
C18_StoppedAfterCleanup ==
    [][life.cleanupRan =>
         /\ life'.sends = life.sends
         /\ life'.loop = "raf" => life.loop = "raf"
         /\ frameNo' = frameNo
         /\ life'.cleanupRan]_vars

\* C19: with at most P = SustainHands pluckers per frame, the live set holds
\* at most P * maxAge ripples at the end of every frame, and it is empty at
\* the end of a frame that closes maxAge consecutive frames without a pluck.
C19_LiveSetBounded ==
    lastFrame.processed =>
        /\ Len(lastFrame.activePluckers) <= SustainHands
        /\ Len(ripplesRef) <= SustainHands * maxAge
        /\ (frameNo >= maxAge /\ \A e \in spawnLog : e.born + maxAge <= frameNo)
              => ripplesRef = <<>>

\* Every plucker has plucked in each of the last maxAge - 1 frames: the live
\* set holds all their ripples, the oldest about to be removed.
C19_Witness ==
    /\ frameNo > maxAge
    /\ Len(lastFrame.spawns) = SustainHands
    /\ Len(ripplesRef) = SustainHands * (maxAge - 1)
    /\ ripplesRef[1].age = maxAge - 1

audioFields == <<ctx, ctxState, masterGain, reverbNode, reverbBuffer,
                 reverbConnected, initPending, voices>>

\* C6: after any number of initialize() calls, also one issued while an
\* earlier one is suspended at its await, exactly one AudioContext, one
\* master gain and one reverb node have been created, and every call after
\* the first changes nothing of the service.
C6_InitializeIdempotent ==
    /\ [](created.calls >= 1 =>
            /\ created.ctx = 1 /\ created.gain = 1 /\ created.convolver = 1
            /\ ctx = "ctx" /\ masterGain = "gain" /\ reverbNode = "convolver")
    /\ [][(created.calls >= 1 /\ created'.calls = created.calls + 1) =>
            /\ UNCHANGED audioFields
            /\ created' = [created EXCEPT !.calls = @ + 1]]_vars

\* A second initialize() has returned while the first is still at its await.
C6_Witness ==
    /\ created.calls = 2 /\ initPending = 1 /\ ~reverbBuffer
    /\ created.ctx = 1

Abs(v) == IF v < 0 THEN -v ELSE v

\* C7: for every argument in [0,1] the oscillator frequency is a multiple of
\* 50 in [200, 800], within 25 Hz of 200 + 600 * argument, and non-decreasing
\* in the argument; playPluck(0) gives 200 Hz and playPluck(1) gives 800 Hz.
C7_FrequencyMap ==
    \A v \in voices :
        (0 <= v.arg.num /\ v.arg.num <= v.arg.den) =>
            /\ v.freq % 50 = 0
            /\ 200 <= v.freq /\ v.freq <= 800
            /\ Abs(v.freq * v.arg.den - (200 * v.arg.den + 600 * v.arg.num))
                   <= 25 * v.arg.den
            /\ v.arg.num = 0 => v.freq = 200
            /\ v.arg.num = v.arg.den => v.freq = 800
            /\ \A w \in voices :
                   (w.arg.num * v.arg.den <= v.arg.num * w.arg.den) => w.freq <= v.freq

\* Voices for playPluck(0) and playPluck(1) exist, at 200 Hz and 800 Hz.
C7_Witness ==
    /\ \E v \in voices : v.arg = Ratio(0, NxDen) /\ v.freq = 200
    /\ \E v \in voices : v.arg = Ratio(NxDen, NxDen) /\ v.freq = 800

\* C1: whenever the cleanup runs relative to start(), every stream that
\* getUserMedia hands to the component has its tracks stopped and the Hands
\* instance is closed: once the cleanup has run and getUserMedia has settled,
\* nothing acquired is still held.
C1_TeardownReleasesAll ==
    (life.cleanupRan /\ life.gum # "pending") =>
        /\ ~life.tracksLive
        /\ life.hands # "open"

=============================================================================
